---- MODULE Spec2Model ----
(***************************************************************************)
(* A model of lox-v2: the single-pass Pratt compiler (src/src/compiler.py) *)
(* over the token stream of src/src/scanner.py, and the stack VM with call *)
(* frames (src/src/vm.py).                                                 *)
(*                                                                         *)
(* Specifications: Spec (the VM), SpecCompile (compile on token            *)
(* sequences), SpecRepl (one VM over several lines, beside a fresh VM per  *)
(* line), SpecChunk (src/src/chunk.py with memory.py and value.py),        *)
(* SpecScan (scan_token on characters), SpecLocals (the compiler's calls   *)
(* on its locals).                                                         *)
(*                                                                         *)
(* A Python exception that leaves a function is modelled as a result named *)
(* after the exception ("AssertionError", "IndexError", "TypeError", ...): *)
(* the call never returns a value, the objects keep what was written       *)
(* before the raise.                                                       *)
(***************************************************************************)
EXTENDS Integers, Sequences, FiniteSets, TLC

\* ------------------------------------------------------------ bounds
\* Bytes of code (opcodes and operands) run reads on one VM, over all its lines.
MaxCode == 8
\* interpret calls made on one VM (the REPL's lines).
MaxLines == 2
\* Tokens of the expressions compiled (the ';' that ends the statement not counted).
MaxExprTokens == 7
\* Tokens of the statement sequences compiled.
MaxStmtTokens == 4
\* Calls of write_chunk and add_constant made on one chunk.
MaxCalls == 10
\* Characters of the sources scanned.
MaxSource == 3
\* Blocks open at once, and locals declared in all, where locals are driven directly.
MaxDepth == 3
MaxDeclared == 4

\* ------------------------------------------------------------ constants
FRAMES_MAX == 8
STACK_MAX == 8
UINT8_MAX == 8
UINT8_COUNT == UINT8_MAX + 1

VARIABLES
    emulator,     \* vm.VM: frames, frame_count, stack, stack_top, output
    frame,        \* run's local `frame`: the index in emulator.frames it drives
    result,       \* "idle", "running", an InterpretResult, or the exception raised
    instruction,  \* run's local `instruction`: the opcode last dispatched
    operand,      \* the operand byte last read (slot, arg_count), 0 if none
    lines_run,    \* number of interpret calls made on this VM
    bytes_run     \* number of code bytes run has read on this VM

vmvars == <<emulator, frame, result, instruction, operand, lines_run, bytes_run>>

VARIABLES
    searcher,     \* scanner.Scanner, as the compiler sees it: tokens and tokens scanned
    processor,    \* compiler.Parser: current, previous, had_error, panic_mode
    composer,     \* compiler.Compiler: locals, local_count, scope_depth
    bytecode,     \* chunk.Chunk the compiler writes: code and constants
    diagnostics,  \* what error_at printed, one entry per diagnostic
    windows,      \* error_at calls that reported and that kept silent, counted per
                  \* stretch between calls of synchronize
    cstatus,      \* "idle", "compiling", "True"/"False" (compile's return) or the exception
    declarations  \* iterations of compile's declaration loop begun

cvars == <<searcher, processor, composer, bytecode, diagnostics, windows, cstatus, declarations>>

VARIABLES
    fresh         \* a VM made anew for each line, run on the line beside the REPL's VM

VARIABLES
    segment,      \* a chunk.Chunk written directly: count, capacity, code, lines, constants
    writes,       \* the write_chunk calls made on it: byte and line of each, in order
    additions,    \* the add_constant calls made on it: value passed and index returned
    freed         \* "no", "yes" once free_chunk has returned, or the exception a call raised

kvars == <<segment, writes, additions, freed>>

VARIABLES
    reader,       \* scanner.Scanner scanning characters: start, current, source, line
    returned,     \* the scanner.Token the last scan_token call returned
    scan_status,  \* "idle", "ok" after init_scanner and each return, or the exception raised
    scanned       \* number of scan_token calls made on reader

svars == <<reader, returned, scan_status, scanned>>

VARIABLES
    pending,      \* a local has been declared and define_variable has not yet run for it
    resolved,     \* the name looked up and the slot returned, if the last call was resolve_local
    scopes,       \* the names declared in each open block, outermost block first
    closed        \* the names that were declared in the block closed last

lvars == <<pending, resolved, scopes, closed>>

vars == <<vmvars, cvars, fresh, kvars, svars, lvars>>

\* ------------------------------------------------------------ Python lists
\* list[i] with Python's negative indices; lists are 1-based sequences here.
InRange(list, i) == i >= -Len(list) /\ i < Len(list)

Pos(list, i) == IF i < 0 THEN Len(list) + i + 1 ELSE i + 1

\* list[start:]
SliceFrom(list, start) ==
    LET n == Len(list)
        s == IF start < 0
             THEN (IF n + start < 0 THEN 0 ELSE n + start)
             ELSE (IF start > n THEN n ELSE start)
    IN  SubSeq(list, s + 1, n)

\* ------------------------------------------------------------ values
Abs(x) == IF x < 0 THEN -x ELSE x

RECURSIVE Gcd(_, _)
Gcd(a, b) == IF b = 0 THEN a ELSE Gcd(b, a % b)

\* Python's None in a slot, a constant or a frame's fun.
None == [kind |-> "None", num |-> 0, den |-> 1, arity |-> 0, typed |-> FALSE]

\* value.ValueType.VAL_NIL
VAL_NIL == [kind |-> "VAL_NIL", num |-> 0, den |-> 1, arity |-> 0, typed |-> FALSE]

\* A float, kept as the reduced fraction num/den (den > 0).
Number(n, d) ==
    LET g == Gcd(Abs(n), Abs(d))
        s == IF d < 0 THEN -1 ELSE 1
    IN  [kind |-> "number", num |-> (s * n) \div g, den |-> (s * d) \div g,
         arity |-> 0, typed |-> FALSE]

\* function.Function; typed says whether the object carries a function_type.
Function(a, t) == [kind |-> "Function", num |-> 0, den |-> 1, arity |-> a, typed |-> t]

\* eval("a {} b".format(op)) of binary_op.
eval(op, a, b) ==
    IF a.kind # "number" \/ b.kind # "number"
    THEN [val |-> None, err |-> "TypeError"]
    ELSE IF op = "+"
    THEN [val |-> Number(a.num * b.den + b.num * a.den, a.den * b.den), err |-> ""]
    ELSE IF op = "-"
    THEN [val |-> Number(a.num * b.den - b.num * a.den, a.den * b.den), err |-> ""]
    ELSE IF op = "*"
    THEN [val |-> Number(a.num * b.num, a.den * b.den), err |-> ""]
    ELSE IF b.num = 0
    THEN [val |-> None, err |-> "ZeroDivisionError"]
    ELSE [val |-> Number(a.num * b.den, a.den * b.num), err |-> ""]

\* ------------------------------------------------------------ frames
\* frame.slots is None
NoSlots == << >>

CallFrame(fun, ip, slots, slots_top) ==
    [fun |-> fun, ip |-> ip, slots |-> slots, slots_top |-> slots_top]

\* VM(): nothing allocated yet.
VM == [frames |-> << >>, frame_count |-> 0, stack |-> << >>, stack_top |-> 0,
       output |-> << >>]

\* reset_stack leaves frame_count as it is.
reset_stack(em) ==
    [em EXCEPT !.frames = [i \in 1..FRAMES_MAX |-> CallFrame(None, 0, NoSlots, 0)],
               !.stack = [i \in 1..STACK_MAX |-> None],
               !.stack_top = 0,
               !.output = << >>]

init_vm == reset_stack(VM)

\* The frame operations return the frame as the raise or the return leaves it.
Ret(fr, val, err) == [frame |-> fr, val |-> val, err |-> err]

push(fr, val) ==
    IF fr.slots = NoSlots THEN Ret(fr, None, "AssertionError")
    ELSE IF ~InRange(fr.slots, fr.slots_top) THEN Ret(fr, None, "IndexError")
    ELSE Ret([fr EXCEPT !.slots[Pos(fr.slots, fr.slots_top)] = val,
                        !.slots_top = @ + 1], None, "")

pop(fr) ==
    LET fr1 == [fr EXCEPT !.slots_top = @ - 1]
    IN  IF fr1.slots = NoSlots THEN Ret(fr1, None, "AssertionError")
        ELSE IF ~InRange(fr1.slots, fr1.slots_top) THEN Ret(fr1, None, "IndexError")
        ELSE IF fr1.slots[Pos(fr1.slots, fr1.slots_top)] = None
        THEN Ret(fr1, None, "AssertionError")
        ELSE Ret(fr1, fr1.slots[Pos(fr1.slots, fr1.slots_top)], "")

peek(fr, distance) ==
    LET i == fr.slots_top - 1 - distance
    IN  IF fr.slots = NoSlots THEN Ret(fr, None, "AssertionError")
        ELSE IF ~InRange(fr.slots, i) THEN Ret(fr, None, "IndexError")
        ELSE IF fr.slots[Pos(fr.slots, i)] = None THEN Ret(fr, None, "AssertionError")
        ELSE Ret(fr, fr.slots[Pos(fr.slots, i)], "")

call(em, fun, arg_count) ==
    IF arg_count # fun.arity THEN [emulator |-> em, condition |-> FALSE]
    ELSE IF em.frame_count = FRAMES_MAX THEN [emulator |-> em, condition |-> FALSE]
    ELSE [emulator |->
            [em EXCEPT !.frame_count = @ + 1,
                       !.frames[em.frame_count + 1] =
                           CallFrame(fun, 0,
                                     SliceFrom(em.stack, em.stack_top - (arg_count + 1)),
                                     arg_count + 1)],
          condition |-> TRUE]

call_value(em, fun, arg_count) ==
    IF fun.typed THEN call(em, fun, arg_count)
    ELSE [emulator |-> em, condition |-> FALSE]

binary_op(fr, op) ==
    LET b == pop(fr)
        a == pop(b.frame)
        v == eval(op, a.val, b.val)
    IN  IF b.err # "" THEN b
        ELSE IF a.err # "" THEN a
        ELSE IF v.err # "" THEN Ret(a.frame, None, v.err)
        ELSE push(a.frame, v.val)

\* ------------------------------------------------------------ run
Running(em) == [emulator |-> em, result |-> "running"]

Stop(em, r) == [emulator |-> em, result |-> r]

WithFrame(em, f, fr) == [em EXCEPT !.frames[f] = fr]

\* read_byte, n times: the instruction pointer moves over the bytes read.
read_bytes(em, f, n) == [em EXCEPT !.frames[f].ip = @ + n]

\* The dispatch loop goes on after r unless r raised.
After(em, f, r) ==
    IF r.err = "" THEN Running(WithFrame(em, f, r.frame))
    ELSE Stop(WithFrame(em, f, r.frame), r.err)

op_constant(em, f, constant) ==
    LET e1 == read_bytes(em, f, 2)
    IN  IF constant = None THEN Stop(e1, "AssertionError")
        ELSE After(e1, f, push(e1.frames[f], constant))

op_nil(em, f) ==
    LET e1 == read_bytes(em, f, 1)
    IN  After(e1, f, push(e1.frames[f], VAL_NIL))

op_pop(em, f) ==
    LET e1 == read_bytes(em, f, 1)
    IN  After(e1, f, pop(e1.frames[f]))

op_get_local(em, f, slot) ==
    LET e1 == read_bytes(em, f, 2)
        fr == e1.frames[f]
    IN  IF fr.slots = NoSlots THEN Stop(e1, "AssertionError")
        ELSE IF ~InRange(fr.slots, slot) THEN Stop(e1, "IndexError")
        ELSE IF fr.slots[Pos(fr.slots, slot)] = None
        THEN Stop(e1, "INTERPRET_RUNTIME_ERROR")
        ELSE After(e1, f, push(fr, fr.slots[Pos(fr.slots, slot)]))

op_set_local(em, f, slot) ==
    LET e1 == read_bytes(em, f, 2)
        pk == peek(e1.frames[f], 0)
        fr == pk.frame
    IN  IF pk.err # "" THEN Stop(e1, pk.err)
        ELSE IF ~InRange(fr.slots, slot) THEN Stop(e1, "IndexError")
        ELSE Running(WithFrame(e1, f, [fr EXCEPT !.slots[Pos(fr.slots, slot)] = pk.val]))

op_binary(em, f, op) ==
    LET e1 == read_bytes(em, f, 1)
    IN  After(e1, f, binary_op(e1.frames[f], op))

op_negate(em, f) ==
    LET e1 == read_bytes(em, f, 1)
        p == pop(e1.frames[f])
    IN  IF p.err # "" THEN After(e1, f, p)
        ELSE IF p.val.kind # "number" THEN Stop(WithFrame(e1, f, p.frame), "AssertionError")
        ELSE After(e1, f, push(p.frame, Number(-p.val.num, p.val.den)))

\* op_print with the value put at the front of the log.
op_print_prepends(em, f) ==
    LET e1 == read_bytes(em, f, 1)
        p == pop(e1.frames[f])
        e2 == WithFrame(e1, f, p.frame)
    IN  IF p.err # "" THEN Stop(e2, p.err)
        ELSE IF p.val.kind # "number" THEN Stop(e2, "AssertionError")
        ELSE Running([e2 EXCEPT !.output = <<p.val>> \o @])

op_print(em, f) ==
    LET e1 == read_bytes(em, f, 1)
        p == pop(e1.frames[f])
        e2 == WithFrame(e1, f, p.frame)
    IN  IF p.err # "" THEN Stop(e2, p.err)
        ELSE IF p.val.kind # "number" THEN Stop(e2, "AssertionError")
        ELSE Running([e2 EXCEPT !.output = Append(@, p.val)])

op_call(em, f, arg_count) ==
    LET e1 == read_bytes(em, f, 2)
        pk == peek(e1.frames[f], arg_count)
        cv == call_value(e1, pk.val, arg_count)
    IN  IF pk.err # "" THEN Stop(e1, pk.err)
        ELSE IF pk.val.kind # "Function" THEN Stop(e1, "AssertionError")
        ELSE IF ~cv.condition THEN Stop(cv.emulator, "INTERPRET_RUNTIME_ERROR")
        ELSE Stop(cv.emulator, "AssertionError")

op_return(em, f) ==
    LET e1 == read_bytes(em, f, 1)
        p == pop(e1.frames[f])
        e2 == [WithFrame(e1, f, p.frame) EXCEPT !.frame_count = @ - 1]
        p2 == pop(e2.frames[f])
        q == push(e2.frames[f], p.val)
    IN  IF p.err # "" THEN Stop(WithFrame(e1, f, p.frame), p.err)
        ELSE IF e2.frame_count = 0
        THEN (IF p2.err # "" THEN Stop(WithFrame(e2, f, p2.frame), p2.err)
              ELSE Stop(WithFrame(e2, f, p2.frame), "INTERPRET_OK"))
        ELSE (IF q.err # "" THEN Stop(WithFrame(e2, f, q.frame), q.err)
              ELSE Stop(WithFrame(e2, f, q.frame), "INTERPRET_OK"))

\* interpret, from the value compile handed back up to run's first line.
interpret(em, fun) ==
    IF fun = None THEN [emulator |-> em, result |-> "INTERPRET_COMPILE_ERROR", frame |-> 0]
    ELSE IF ~InRange(em.stack, em.stack_top)
    THEN [emulator |-> em, result |-> "IndexError", frame |-> 0]
    ELSE LET e1 == [em EXCEPT !.stack[Pos(em.stack, em.stack_top)] = fun,
                              !.stack_top = @ + 1]
             cv == call_value(e1, fun, 0)
         IN  [emulator |-> cv.emulator, result |-> "running",
              frame |-> Pos(cv.emulator.frames, cv.emulator.frame_count - 1)]

\* ------------------------------------------------------------ tokens
\* scanner.Token: its type and its text (source[start:start + length]).
Token(token_type, source) == [token_type |-> token_type, source |-> source]

\* processor.current / processor.previous before the first advance.
NoToken == Token("None", "")

\* The text of a one-digit number token, float(source).
Digit(source) ==
    CASE source = "0" -> 0 [] source = "1" -> 1 [] source = "2" -> 2
      [] source = "3" -> 3 [] source = "4" -> 4 [] OTHER -> 5

\* A string constant (an identifier's name).
String == [kind |-> "str", num |-> 0, den |-> 1, arity |-> 0, typed |-> FALSE]

\* A byte of chunk.code: an opcode, or an operand (constant index, slot).
Op(name) == [op |-> name, arg |-> 0]

Operand(n) == [op |-> "", arg |-> n]

\* ------------------------------------------------------------ compiler state
Precedence ==
    [PREC_NONE |-> 1, PREC_ASSIGNMENT |-> 2, PREC_EQUALITY |-> 3,
     PREC_COMPARISON |-> 4, PREC_TERM |-> 5, PREC_FACTOR |-> 6,
     PREC_UNARY |-> 7, PREC_CALL |-> 8, PREC_PRIMARY |-> 9]

\* The token types rule_map has a row for.
RuleTypes ==
    {"TOKEN_LEFT_PAREN", "TOKEN_RIGHT_PAREN", "TOKEN_LEFT_BRACE", "TOKEN_RIGHT_BRACE",
     "TOKEN_MINUS", "TOKEN_PLUS", "TOKEN_SEMICOLON", "TOKEN_SLASH", "TOKEN_STAR",
     "TOKEN_EQUAL", "TOKEN_IDENTIFIER", "TOKEN_NUMBER", "TOKEN_FUN", "TOKEN_PRINT",
     "TOKEN_RETURN", "TOKEN_VAR", "TOKEN_ERROR", "TOKEN_EOF"}

ParseRule(prefix, infix, precedence) ==
    [prefix |-> prefix, infix |-> infix, precedence |-> precedence]

rule_map(token_type) ==
    CASE token_type = "TOKEN_LEFT_PAREN" -> ParseRule("grouping", "None", Precedence.PREC_NONE)
      [] token_type = "TOKEN_MINUS" -> ParseRule("unary", "binary", Precedence.PREC_TERM)
      [] token_type = "TOKEN_PLUS" -> ParseRule("None", "binary", Precedence.PREC_TERM)
      [] token_type = "TOKEN_SLASH" -> ParseRule("None", "binary", Precedence.PREC_FACTOR)
      [] token_type = "TOKEN_STAR" -> ParseRule("None", "binary", Precedence.PREC_FACTOR)
      [] token_type = "TOKEN_IDENTIFIER" -> ParseRule("variable", "None", Precedence.PREC_NONE)
      [] token_type = "TOKEN_NUMBER" -> ParseRule("number", "None", Precedence.PREC_NONE)
      [] OTHER -> ParseRule("None", "None", Precedence.PREC_NONE)

\* get_rule raises KeyError on a token type without a row.
get_rule_raises(token_type) == token_type \notin RuleTypes

get_rule(token_type) == rule_map(token_type)

Local(name, depth) == [name |-> name, depth |-> depth]

init_compiler ==
    [locals |-> [i \in 1..UINT8_COUNT |-> Local(NoToken, 0)],
     local_count |-> 1,
     scope_depth |-> 0]

init_parser ==
    [current |-> NoToken, previous |-> NoToken, had_error |-> FALSE, panic_mode |-> FALSE]

init_scanner(tokens) == [tokens |-> tokens, scanned |-> 0]

init_chunk == [code |-> << >>, constants |-> << >>]

\* The objects compile works on, and "ok" or the exception that left it.
Window(reported, suppressed) == [reported |-> reported, suppressed |-> suppressed]

CompileState(tokens) ==
    [searcher |-> init_scanner(tokens),
     processor |-> init_parser,
     composer |-> init_compiler,
     bytecode |-> init_chunk,
     diagnostics |-> << >>,
     windows |-> <<Window(0, 0)>>,
     status |-> "ok"]

Raise(c, exception) == IF c.status # "ok" THEN c ELSE [c EXCEPT !.status = exception]

\* c2 is c after one more statement, unless an exception is already on its way.
Do(c, c2) == IF c.status # "ok" THEN c ELSE c2

\* ------------------------------------------------------------ compiler
\* scanner.scan_token raises IndexError once the source is used up: skip_whitespace
\* peeks at source[current] without asking is_at_end, so TOKEN_EOF is never made.
scan_token_raises(c) == c.searcher.scanned >= Len(c.searcher.tokens)

\* A report that is made in panic mode too.
error_at_always(c, token, message) ==
    IF c.status # "ok" THEN c
    ELSE [c EXCEPT !.processor.panic_mode = TRUE,
                   !.windows[Len(c.windows)].reported = @ + 1,
                   !.diagnostics =
                       Append(@, [at |-> IF token.token_type = "TOKEN_EOF" THEN "end"
                                         ELSE IF token.token_type = "TOKEN_ERROR" THEN ""
                                         ELSE token.source,
                                  message |-> message])]

error_at(c, token, message) ==
    IF c.status # "ok" THEN c
    ELSE IF c.processor.panic_mode
    THEN [c EXCEPT !.windows[Len(c.windows)].suppressed = @ + 1]
    ELSE [c EXCEPT !.processor.panic_mode = TRUE,
                   !.windows[Len(c.windows)].reported = @ + 1,
                   !.diagnostics =
                       Append(@, [at |-> IF token.token_type = "TOKEN_EOF" THEN "end"
                                         ELSE IF token.token_type = "TOKEN_ERROR" THEN ""
                                         ELSE token.source,
                                  message |-> message])]

error(c, message) == error_at(c, c.processor.previous, message)

error_at_current(c, message) == error_at(c, c.processor.current, message)

\* advance's loop: scan, store as current, go on after an error token.
RECURSIVE advance_loop(_)
advance_loop(c) ==
    IF c.status # "ok" THEN c
    ELSE IF scan_token_raises(c) THEN Raise(c, "IndexError")
    ELSE LET current_token == c.searcher.tokens[c.searcher.scanned + 1]
             c1 == [c EXCEPT !.searcher.scanned = @ + 1,
                             !.processor.current = current_token]
         IN  IF current_token.token_type # "TOKEN_ERROR" THEN c1
             ELSE advance_loop(error_at_current(c1, "None"))

advance(c) ==
    Do(c, advance_loop([c EXCEPT !.processor.previous = c.processor.current]))

consume(c, token_type, message) ==
    IF c.processor.current.token_type = token_type THEN advance(c)
    ELSE error_at_current(c, message)

check(c, token_type) == c.processor.current.token_type = token_type

\* match returns (processor, condition): the state here, the condition is check's.
match(c, token_type) == IF check(c, token_type) THEN advance(c) ELSE c

\* chunk.write_chunk, as far as the code array goes.
write_chunk(chunk, byte) == [chunk EXCEPT !.code = Append(@, byte)]

\* chunk.add_constant: the value is appended, its index returned.
add_constant(chunk, val) == [chunk EXCEPT !.constants = Append(@, val)]

emit_byte(c, byte) ==
    IF c.status # "ok" THEN c
    ELSE IF c.processor.previous = NoToken THEN Raise(c, "AssertionError")
    ELSE [c EXCEPT !.bytecode = write_chunk(@, byte)]

emit_bytes(c, byte1, byte2) == emit_byte(emit_byte(c, byte1), byte2)

emit_return(c) == emit_byte(c, Op("OP_RETURN"))

\* make_constant returns (processor, constant); constant -1 stands for None.
make_constant(c, val) ==
    LET constant == Len(c.bytecode.constants)
        c1 == Do(c, [c EXCEPT !.bytecode = add_constant(@, val)])
    IN  IF constant > UINT8_MAX
        THEN [c |-> error(c1, "Too many constants in one chunk."), constant |-> -1]
        ELSE [c |-> c1, constant |-> constant]

emit_constant(c, val) ==
    LET m == make_constant(c, val)
    IN  IF m.constant = -1 THEN Raise(m.c, "AssertionError")
        ELSE emit_bytes(m.c, Op("OP_CONSTANT"), Operand(m.constant))

end_compiler(c) == emit_return(c)

begin_scope(c) == Do(c, [c EXCEPT !.composer.scope_depth = @ + 1])

\* end_scope's loop: one OP_POP for each local deeper than the scope left.
RECURSIVE end_scope_loop(_)
\* A loop that also pops the locals of the scope the block is nested in.
RECURSIVE end_scope_enclosing(_)
end_scope_enclosing(c) ==
    IF c.status # "ok" THEN c
    ELSE LET is_positive == c.composer.local_count > 0
             depth == c.composer.locals[Pos(c.composer.locals,
                                            c.composer.local_count - 1)].depth
             c1 == emit_byte(c, Op("OP_POP"))
         IN  IF ~is_positive \/ depth < c.composer.scope_depth \/ depth = 0 THEN c
             ELSE end_scope_enclosing(Do(c1, [c1 EXCEPT !.composer.local_count = @ - 1]))

end_scope_loop(c) ==
    IF c.status # "ok" THEN c
    ELSE LET is_positive == c.composer.local_count > 0
             depth == c.composer.locals[Pos(c.composer.locals,
                                            c.composer.local_count - 1)].depth
             is_over_scope == depth > c.composer.scope_depth
             c1 == emit_byte(c, Op("OP_POP"))
         IN  IF ~is_positive \/ ~is_over_scope THEN c
             ELSE end_scope_loop(Do(c1, [c1 EXCEPT !.composer.local_count = @ - 1]))

end_scope(c) == end_scope_loop(Do(c, [c EXCEPT !.composer.scope_depth = @ - 1]))

\* ------------------------------------------------------------ locals
\* a is a Token, b a local's name (None until add_local writes it).
identifiers_equal(a, b) ==
    IF a = NoToken \/ b = NoToken THEN FALSE
    ELSE a.source = b.source  \* equal lengths follow from equal texts

identifier_constant(c, token) == make_constant(c, String)

\* A lookup that answers with the lowest matching index of 0..i.
resolve_local_lowest(c, token, i) ==
    LET matches == {j \in 0..i : identifiers_equal(token, c.composer.locals[j + 1].name)}
    IN  [c |-> c,
         arg |-> IF matches = {} THEN -1 ELSE CHOOSE j \in matches : \A k \in matches : j <= k]

\* resolve_local's loop from index i down; returns (processor, slot).
RECURSIVE resolve_local_loop(_, _, _)
resolve_local_loop(c, token, i) ==
    IF i < 0 THEN [c |-> c, arg |-> -1]
    ELSE LET local == c.composer.locals[i + 1]
         IN  IF identifiers_equal(token, local.name)
             THEN [c |-> IF local.depth = -1
                         THEN error(c, "Cannot read local variable in its own initializer.")
                         ELSE c,
                   arg |-> i]
             ELSE resolve_local_loop(c, token, i - 1)

resolve_local(c, token) == resolve_local_loop(c, token, c.composer.local_count - 1)

add_local(c, token) ==
    IF c.status # "ok" THEN c
    ELSE IF c.composer.local_count = UINT8_COUNT
    THEN error(c, "Too many local variables in function.")
    ELSE [c EXCEPT !.composer.locals[c.composer.local_count + 1] =
                       Local(token, c.composer.scope_depth),
                   !.composer.local_count = @ + 1]

\* A search for the name through all of locals[0..i], enclosing scopes included.
declared_anywhere(c, token, i) ==
    \E j \in 0..i : identifiers_equal(token, c.composer.locals[j + 1].name)

\* declare_variable's loop from index i down; TRUE if the name is already declared
\* in the scope being compiled.
RECURSIVE declared_in_scope(_, _, _)
declared_in_scope(c, token, i) ==
    IF i < 0 THEN FALSE
    ELSE LET local == c.composer.locals[i + 1]
         IN  IF local.depth # -1 /\ local.depth < c.composer.scope_depth THEN FALSE
             ELSE IF identifiers_equal(token, local.name) THEN TRUE
             ELSE declared_in_scope(c, token, i - 1)

declare_variable(c) ==
    IF c.status # "ok" \/ c.composer.scope_depth = 0 THEN c
    ELSE IF declared_in_scope(c, c.processor.previous, c.composer.local_count - 1)
    THEN error(c, "Variable with this name already declared in this scope.")
    ELSE add_local(c, c.processor.previous)

parse_variable(c, error_message) ==
    LET c1 == declare_variable(consume(c, "TOKEN_IDENTIFIER", error_message))
    IN  IF c1.status # "ok" \/ c1.composer.scope_depth > 0 THEN c1
        ELSE identifier_constant(c1, c1.processor.previous).c

mark_initialized(c) ==
    IF c.status # "ok" THEN c
    ELSE IF ~(c.composer.scope_depth > 0) THEN Raise(c, "AssertionError")
    ELSE [c EXCEPT !.composer.locals[Pos(c.composer.locals, c.composer.local_count - 1)].depth =
                       c.composer.scope_depth]

define_variable(c) ==
    IF c.status # "ok" THEN c
    ELSE IF ~(c.composer.scope_depth > 0) THEN Raise(c, "AssertionError")
    ELSE mark_initialized(c)

\* ------------------------------------------------------------ parser
RECURSIVE parse_precedence(_, _), infix_loop(_, _), binary(_), unary(_), grouping(_),
          named_variable(_, _), expression(_), block_loop(_), declaration(_),
          statement(_), synchronize_loop(_)

number(c) == emit_constant(c, Number(Digit(c.processor.previous.source), 1))

variable(c) == named_variable(c, c.processor.previous)

\* `if match(...)` tests the (processor, condition) pair match returns, which is
\* never false: the assignment branch is taken whatever the next token is.
named_variable(c, token) ==
    LET r == resolve_local(c, token)
        c1 == match(r.c, "TOKEN_EQUAL")
    IN  emit_bytes(expression(c1), Op("OP_SET_LOCAL"), Operand(r.arg))

\* grouping returns the processor alone; parse_precedence unpacks two values.
grouping(c) == consume(expression(c), "TOKEN_RIGHT_PAREN", "Expect ')' after expression.")

unary(c) ==
    LET operator_type == c.processor.previous.token_type
        c1 == parse_precedence(c, Precedence.PREC_UNARY)
    IN  IF operator_type = "TOKEN_MINUS" THEN emit_byte(c1, Op("OP_NEGATE")) ELSE c1

binary(c) ==
    LET operator_type == c.processor.previous.token_type
        precedence == get_rule(operator_type).precedence + 1
        c1 == parse_precedence(c, precedence)
    IN  IF c.status # "ok" THEN c
        ELSE IF get_rule_raises(operator_type) THEN Raise(c, "KeyError")
        ELSE IF operator_type = "TOKEN_PLUS" THEN emit_byte(c1, Op("OP_ADD"))
        ELSE IF operator_type = "TOKEN_MINUS" THEN emit_byte(c1, Op("OP_SUBTRACT"))
        ELSE IF operator_type = "TOKEN_STAR" THEN emit_byte(c1, Op("OP_MULTIPLY"))
        ELSE IF operator_type = "TOKEN_SLASH" THEN emit_byte(c1, Op("OP_DIVIDE"))
        ELSE c1

expression(c) == parse_precedence(c, Precedence.PREC_ASSIGNMENT)

\* The prefix rule of parse_precedence, called and its result unpacked.
prefix_rule(c, prefix) ==
    IF prefix = "grouping" THEN Raise(grouping(c), "TypeError")
    ELSE IF prefix = "unary" THEN unary(c)
    ELSE IF prefix = "variable" THEN variable(c)
    ELSE number(c)

\* parse_precedence's while loop over the infix operators.
infix_loop(c, precedence) ==
    IF c.status # "ok" THEN c
    ELSE IF get_rule_raises(c.processor.current.token_type) THEN Raise(c, "KeyError")
    ELSE IF ~(precedence <= get_rule(c.processor.current.token_type).precedence) THEN c
    ELSE LET c1 == advance(c)
         IN  IF c1.status # "ok" THEN c1
             ELSE IF get_rule(c1.processor.previous.token_type).infix = "None"
             THEN Raise(c1, "TypeError")
             ELSE infix_loop(binary(c1), precedence)

parse_precedence(c, precedence) ==
    LET c1 == advance(c)
    IN  IF c1.status # "ok" THEN c1
        ELSE IF get_rule_raises(c1.processor.previous.token_type) THEN Raise(c1, "KeyError")
        ELSE IF get_rule(c1.processor.previous.token_type).prefix = "None"
        THEN error(c1, "Expect expression")
        ELSE infix_loop(prefix_rule(c1, get_rule(c1.processor.previous.token_type).prefix),
                        precedence)

\* ------------------------------------------------------------ statements
variable_declaration(c) ==
    LET c1 == parse_variable(c, "Expect variable name.")
        condition == check(c1, "TOKEN_EQUAL")
        c2 == match(c1, "TOKEN_EQUAL")
    IN  IF c1.status # "ok" THEN c1
        ELSE IF ~condition THEN Raise(c2, "AssertionError")
        ELSE define_variable(consume(expression(c2), "TOKEN_SEMICOLON",
                                     "Expect ';' after variable declaration."))

block_loop(c) ==
    IF c.status # "ok" THEN c
    ELSE IF check(c, "TOKEN_RIGHT_BRACE") \/ check(c, "TOKEN_EOF") THEN c
    ELSE block_loop(declaration(c))

block(c) == consume(block_loop(c), "TOKEN_RIGHT_BRACE", "Expect '}' after block.")

expression_statement(c) ==
    emit_byte(consume(expression(c), "TOKEN_SEMICOLON", "Expect ';' after expression."),
              Op("OP_POP"))

print_statement(c) ==
    emit_byte(consume(expression(c), "TOKEN_SEMICOLON", "Expect ';' after expression."),
              Op("OP_PRINT"))

synchronize_loop(c) ==
    IF c.status # "ok" THEN c
    ELSE IF c.processor.current.token_type = "TOKEN_EOF" THEN c
    ELSE IF c.processor.previous.token_type = "TOKEN_SEMICOLON" THEN c
    ELSE IF c.processor.current.token_type = "TOKEN_RETURN" THEN c
    ELSE synchronize_loop(advance(c))

synchronize(c) ==
    synchronize_loop(Do(c, [c EXCEPT !.processor.panic_mode = FALSE,
                                     !.windows = Append(@, Window(0, 0))]))

\* After a block the code falls through to expression_statement.
statement(c) ==
    LET is_print == check(c, "TOKEN_PRINT")
        c1 == match(c, "TOKEN_PRINT")
        is_block == check(c1, "TOKEN_LEFT_BRACE")
        c2 == match(c1, "TOKEN_LEFT_BRACE")
    IN  IF c.status # "ok" THEN c
        ELSE IF is_print THEN print_statement(c1)
        ELSE IF is_block THEN expression_statement(end_scope(block(begin_scope(c2))))
        ELSE expression_statement(c2)

\* In panic mode declaration returns what synchronize returns, the processor alone;
\* block and compile unpack three values from it.
declaration(c) ==
    LET condition == check(c, "TOKEN_VAR")
        c1 == match(c, "TOKEN_VAR")
        c2 == IF condition THEN variable_declaration(c1) ELSE statement(c1)
    IN  IF c.status # "ok" THEN c
        ELSE IF c2.status # "ok" THEN c2
        ELSE IF c2.processor.panic_mode THEN Raise(synchronize(c2), "TypeError")
        ELSE c2

\* compile up to its loop: the objects are made, the first token is read.
compile_begin(tokens) == advance(CompileState(tokens))

\* One turn of compile's loop: leave it at TOKEN_EOF, else compile a declaration.
\* A loop that takes a ';' where a declaration starts for an empty statement,
\* and leaves it where it is.
compile_loop_empty(c) ==
    LET condition == check(c, "TOKEN_EOF")
        c1 == match(c, "TOKEN_EOF")
    IN  IF condition THEN [c |-> c1, done |-> TRUE]
        ELSE IF check(c, "TOKEN_SEMICOLON") THEN [c |-> c1, done |-> FALSE]
        ELSE [c |-> declaration(c1), done |-> FALSE]

compile_loop(c) ==
    LET condition == check(c, "TOKEN_EOF")
        c1 == match(c, "TOKEN_EOF")
    IN  IF condition THEN [c |-> c1, done |-> TRUE]
        ELSE [c |-> declaration(c1), done |-> FALSE]

\* compile after its loop: OP_RETURN is written, the answer is `not had_error`.
compile_end(c) ==
    LET c1 == end_compiler(c)
    IN  [c |-> c1,
         returns |-> IF c1.status # "ok" THEN c1.status
                     ELSE IF c1.processor.had_error THEN "False" ELSE "True"]

\* ------------------------------------------------------------ inputs
\* What compile hands to interpret: None, or the script's Function.
CompileResults == {None, Function(0, TRUE), Function(0, FALSE)}

\* The constants a chunk holds.
ConstantValues == {Number(1, 1), Function(0, TRUE), Function(1, TRUE)}

\* Slot operands; -1 is what resolve_local returns for a name it does not find.
Slots == {-1, 0, 1}

ArgCounts == {0, 1}

BinaryOps == {"+", "-", "*", "/"}

OpOf(op) == IF op = "+" THEN "OP_ADD" ELSE IF op = "-" THEN "OP_SUBTRACT"
            ELSE IF op = "*" THEN "OP_MULTIPLY" ELSE "OP_DIVIDE"

InterpretResults == {"INTERPRET_OK", "INTERPRET_COMPILE_ERROR", "INTERPRET_RUNTIME_ERROR"}

\* ------------------------------------------------------------ programs
NUMBER(source) == Token("TOKEN_NUMBER", source)
IDENTIFIER(source) == Token("TOKEN_IDENTIFIER", source)
LEFT_PAREN == Token("TOKEN_LEFT_PAREN", "(")
RIGHT_PAREN == Token("TOKEN_RIGHT_PAREN", ")")
LEFT_BRACE == Token("TOKEN_LEFT_BRACE", "{")
RIGHT_BRACE == Token("TOKEN_RIGHT_BRACE", "}")
MINUS == Token("TOKEN_MINUS", "-")
PLUS == Token("TOKEN_PLUS", "+")
SLASH == Token("TOKEN_SLASH", "/")
STAR == Token("TOKEN_STAR", "*")
SEMICOLON == Token("TOKEN_SEMICOLON", ";")
EQUAL == Token("TOKEN_EQUAL", "=")
EQUAL_EQUAL == Token("TOKEN_EQUAL_EQUAL", "==")
VAR == Token("TOKEN_VAR", "let")
PRINT == Token("TOKEN_PRINT", "print")
ERROR == Token("TOKEN_ERROR", "None")

Numbers == {NUMBER("1"), NUMBER("2")}

BinaryTokens == {PLUS, MINUS, STAR, SLASH}

\* The token sequences of exactly n tokens that are expressions of the language:
\* numbers, -e, (e) and e op e.
RECURSIVE Expressions(_)
Expressions(n) ==
    IF n < 1 THEN {}
    ELSE IF n = 1 THEN {<<t>> : t \in Numbers}
    ELSE {<<MINUS>> \o e : e \in Expressions(n - 1)}
         \cup {<<LEFT_PAREN>> \o e \o <<RIGHT_PAREN>> : e \in Expressions(n - 2)}
         \cup UNION {{a \o <<op>> \o b : a \in Expressions(k),
                                        b \in Expressions(n - 1 - k),
                                        op \in BinaryTokens} : k \in 1..(n - 2)}

\* Expression statements: an expression and its ';'.
ExpressionPrograms ==
    UNION {{e \o <<SEMICOLON>> : e \in Expressions(n)} : n \in 1..MaxExprTokens}

StatementTokens ==
    {NUMBER("1"), IDENTIFIER("a"), IDENTIFIER("b"), PLUS, SEMICOLON, EQUAL, EQUAL_EQUAL,
     VAR, PRINT, LEFT_BRACE, RIGHT_BRACE, RIGHT_PAREN, ERROR}

\* Every sequence of up to MaxStmtTokens statement tokens, well formed or not.
StatementPrograms ==
    UNION {[1..n -> StatementTokens] : n \in 0..MaxStmtTokens}

\* The sources of tests/test_vm.py that declare and read variables, as tokens.
test_single_variable_single_scope ==
    <<LEFT_BRACE, VAR, IDENTIFIER("a"), EQUAL, NUMBER("1"), SEMICOLON,
      PRINT, IDENTIFIER("a"), SEMICOLON, RIGHT_BRACE>>

test_single_variable_multiple_scope ==
    <<LEFT_BRACE, VAR, IDENTIFIER("a"), EQUAL, NUMBER("1"), SEMICOLON,
      PRINT, IDENTIFIER("a"), SEMICOLON,
      LEFT_BRACE, IDENTIFIER("a"), EQUAL, NUMBER("2"), SEMICOLON,
      PRINT, IDENTIFIER("a"), SEMICOLON, RIGHT_BRACE,
      PRINT, IDENTIFIER("a"), SEMICOLON, RIGHT_BRACE>>

test_multiple_variable_multiple_scope ==
    <<LEFT_BRACE, VAR, IDENTIFIER("a"), EQUAL, NUMBER("1"), SEMICOLON,
      PRINT, IDENTIFIER("a"), SEMICOLON,
      LEFT_BRACE, VAR, IDENTIFIER("b"), EQUAL, NUMBER("2"), SEMICOLON,
      PRINT, IDENTIFIER("b"), SEMICOLON, RIGHT_BRACE,
      PRINT, IDENTIFIER("a"), SEMICOLON, RIGHT_BRACE>>

test_multiple_variable_scope_error ==
    <<LEFT_BRACE, VAR, IDENTIFIER("a"), EQUAL, NUMBER("1"), SEMICOLON,
      PRINT, IDENTIFIER("a"), SEMICOLON,
      LEFT_BRACE, VAR, IDENTIFIER("b"), EQUAL, NUMBER("2"), SEMICOLON, RIGHT_BRACE,
      PRINT, IDENTIFIER("b"), SEMICOLON, RIGHT_BRACE>>

TestPrograms ==
    {test_single_variable_single_scope, test_single_variable_multiple_scope,
     test_multiple_variable_multiple_scope, test_multiple_variable_scope_error}

\* 1 + 1 + ... + 1 with n numbers, and the statements of up to UINT8_MAX + 2 of
\* them: one constant more than make_constant lets through.
RECURSIVE Sum(_)
Sum(n) == IF n = 1 THEN <<NUMBER("1")>> ELSE Sum(n - 1) \o <<PLUS, NUMBER("1")>>

ConstantPrograms == {Sum(n) \o <<SEMICOLON>> : n \in UINT8_MAX..(UINT8_MAX + 2)}

\* Three statements, the one in the middle one or two tokens of any kind and
\* a ';'.
RecoveryPrograms ==
    {<<NUMBER("1"), SEMICOLON>> \o between \o <<SEMICOLON, NUMBER("2"), SEMICOLON>> :
        between \in [1..1 -> StatementTokens] \cup [1..2 -> StatementTokens]}

Programs ==
    ExpressionPrograms \cup StatementPrograms \cup TestPrograms \cup ConstantPrograms
        \cup RecoveryPrograms

\* ------------------------------------------------------------ chunk, value array, memory
\* A Python list or None (chunk.Code, chunk.Lines, value.Values).
NoneList == [is_none |-> TRUE, items |-> << >>]
List(items) == [is_none |-> FALSE, items |-> items]

\* [None] * n
Nones(n) == [i \in 1..n |-> None]

\* memory.grow_capacity
grow_capacity(capacity) == IF capacity < 8 THEN 8 ELSE capacity * 2

\* A reallocate that hands back a list of None entries only.
reallocate_anew(array, old_size, new_size) ==
    IF new_size = 0 THEN NoneList ELSE List(Nones(new_size))

\* memory.reallocate: None for size 0, else the list (a new one for None or an
\* empty list) with new_size - old_size None entries appended.
reallocate(array, old_size, new_size) ==
    IF new_size = 0 THEN NoneList
    ELSE List(array.items \o Nones(IF new_size > old_size THEN new_size - old_size ELSE 0))

grow_array(array, old_count, new_count) == reallocate(array, old_count, new_count)

free_array(array, old_count) == reallocate(array, old_count, 0)

\* value.ValueArray
ValueArray == [count |-> 0, capacity |-> 0, values |-> NoneList]

init_value_array == ValueArray

\* value.write_value_array; err is the exception raised, "" if none.
write_value_array(value_array, val) ==
    LET grown == IF value_array.capacity < value_array.count + 1
                 THEN [value_array EXCEPT
                          !.capacity = grow_capacity(value_array.capacity),
                          !.values = grow_array(value_array.values, value_array.capacity,
                                                grow_capacity(value_array.capacity))]
                 ELSE value_array
    IN  IF grown.values.is_none THEN [value_array |-> grown, err |-> "AssertionError"]
        ELSE IF ~InRange(grown.values.items, grown.count)
        THEN [value_array |-> grown, err |-> "IndexError"]
        ELSE [value_array |->
                 [grown EXCEPT !.values.items[Pos(grown.values.items, grown.count)] = val,
                               !.count = @ + 1],
              err |-> ""]

\* value.free_value_array: what it returns.
free_value_array(value_array) ==
    IF value_array.values.is_none
    THEN [value_array |-> value_array, err |-> "AssertionError"]
    ELSE [value_array |-> init_value_array, err |-> ""]

\* chunk.Chunk and chunk.init_chunk, with the arrays as the code keeps them.
Chunk == [count |-> 0, capacity |-> 0, code |-> NoneList, lines |-> NoneList,
          constants |-> ValueArray]

chunk_init_chunk == [Chunk EXCEPT !.constants = init_value_array]

\* A write_chunk that writes over the first entry and leaves count alone.
chunk_write_chunk_first(chunk, byte, line) ==
    [chunk |-> [chunk EXCEPT !.capacity = 8,
                             !.code = List([Nones(8) EXCEPT ![1] = byte]),
                             !.lines = List([Nones(8) EXCEPT ![1] = line])],
     err |-> ""]

\* chunk.write_chunk, with the arrays as the code keeps them.
chunk_write_chunk(chunk, byte, line) ==
    LET grown == IF chunk.capacity < chunk.count + 1
                 THEN [chunk EXCEPT
                          !.capacity = grow_capacity(chunk.capacity),
                          !.code = grow_array(chunk.code, chunk.capacity,
                                              grow_capacity(chunk.capacity)),
                          !.lines = grow_array(chunk.lines, chunk.capacity,
                                               grow_capacity(chunk.capacity))]
                 ELSE chunk
    IN  IF grown.code.is_none \/ grown.lines.is_none
        THEN [chunk |-> grown, err |-> "AssertionError"]
        ELSE IF ~InRange(grown.code.items, grown.count)
        THEN [chunk |-> grown, err |-> "IndexError"]
        ELSE IF ~InRange(grown.lines.items, grown.count)
        THEN [chunk |-> [grown EXCEPT
                            !.code.items[Pos(grown.code.items, grown.count)] = byte],
              err |-> "IndexError"]
        ELSE [chunk |->
                 [grown EXCEPT !.code.items[Pos(grown.code.items, grown.count)] = byte,
                               !.lines.items[Pos(grown.lines.items, grown.count)] = line,
                               !.count = @ + 1],
              err |-> ""]

\* chunk.add_constant, with the value array as the code keeps it: the chunk and
\* the index returned.
chunk_add_constant(chunk, val) ==
    LET w == write_value_array(chunk.constants, val)
    IN  [chunk |-> [chunk EXCEPT !.constants = w.value_array],
         constant |-> w.value_array.count - 1,
         err |-> w.err]

\* chunk.free_chunk: the chunk it returns, or the chunk as the exception left it.
free_chunk(chunk) ==
    IF chunk.code.is_none \/ chunk.lines.is_none
    THEN [chunk |-> chunk, err |-> "AssertionError"]
    ELSE [chunk |-> chunk_init_chunk, err |-> ""]

\* ------------------------------------------------------------ scanner, on characters
\* source[a:b] for 0 <= a
Slice(source, a, b) ==
    SubSeq(source, a + 1, IF b > Len(source) THEN Len(source) ELSE b)

\* scanner.Token as scan_token makes it; source is a list of characters or None.
scanner_Token(token_type, start, length, source, line) ==
    [token_type |-> token_type, start |-> start, length |-> length,
     source |-> source, line |-> line]

\* No scan_token call has returned.
NoScan == scanner_Token("None", 0, 0, NoneList, 0)

single_token_map ==
    [character \in {"(", ")", "{", "}", ";", "-", "+", "/", "*"} |->
        CASE character = "(" -> "TOKEN_LEFT_PAREN"
          [] character = ")" -> "TOKEN_RIGHT_PAREN"
          [] character = "{" -> "TOKEN_LEFT_BRACE"
          [] character = "}" -> "TOKEN_RIGHT_BRACE"
          [] character = ";" -> "TOKEN_SEMICOLON"
          [] character = "-" -> "TOKEN_MINUS"
          [] character = "+" -> "TOKEN_PLUS"
          [] character = "/" -> "TOKEN_SLASH"
          [] OTHER -> "TOKEN_STAR"]

double_token_map ==
    [character \in {"!", "=", "<", ">"} |->
        CASE character = "!" -> <<"TOKEN_BANG_EQUAL", "TOKEN_BANG">>
          [] character = "=" -> <<"TOKEN_EQUAL_EQUAL", "TOKEN_EQUAL">>
          [] character = "<" -> <<"TOKEN_LESS_EQUAL", "TOKEN_LESS">>
          [] OTHER -> <<"TOKEN_GREATER_EQUAL", "TOKEN_GREATER">>]

\* scanner.Scanner
Scanner == [start |-> 0, current |-> 0, source |-> << >>, line |-> 0]

scanner_init_scanner(source) == [Scanner EXCEPT !.source = source, !.line = 1]

\* The letters and digits the sources are written in.
Letters == {"e", "l", "t"}
Digits == {"1"}

is_alpha(character) == character \in Letters \cup {"_"}

is_digit(character) == character \in Digits

is_at_end(rd) == rd.current = Len(rd.source)

\* advance: the reader moved on; the character consumed is source[current - 1].
scanner_advance(rd) == [rd EXCEPT !.current = @ + 1]

\* peek and peek_next raise IndexError where these are false.
peek_raises(rd) == ~InRange(rd.source, rd.current)
peek_next_raises(rd) == ~InRange(rd.source, rd.current + 1)

scanner_peek(rd) == rd.source[Pos(rd.source, rd.current)]

peek_next(rd) == rd.source[Pos(rd.source, rd.current + 1)]

\* match: the reader and the condition.
scanner_match(rd, expected) ==
    IF is_at_end(rd) THEN [reader |-> rd, condition |-> FALSE]
    ELSE IF rd.source[rd.current + 1] # expected THEN [reader |-> rd, condition |-> FALSE]
    ELSE [reader |-> scanner_advance(rd), condition |-> TRUE]

\* What scan_token and its helpers hand back: the reader as they left it, and
\* the token returned or the exception raised.
Returns(rd, tk) == [reader |-> rd, token |-> tk, err |-> ""]
Raises(rd, exc) == [reader |-> rd, token |-> NoScan, err |-> exc]

make_token(rd, token_type) ==
    Returns(rd, scanner_Token(token_type, rd.start, rd.current - rd.start,
                              List(Slice(rd.source, rd.start, rd.current)), rd.line))

\* error_token: the message goes into the length only.
error_token(rd, message_length) ==
    Returns(rd, scanner_Token("TOKEN_ERROR", 0, message_length, NoneList, rd.line))

\* skip_whitespace's inner loop over a '//' comment.
RECURSIVE comment_loop(_)
comment_loop(rd) ==
    IF peek_raises(rd) THEN Raises(rd, "IndexError")
    ELSE IF scanner_peek(rd) # "\n" /\ ~is_at_end(rd) THEN comment_loop(scanner_advance(rd))
    ELSE Returns(rd, NoScan)

RECURSIVE skip_whitespace(_)
skip_whitespace(rd) ==
    IF peek_raises(rd) THEN Raises(rd, "IndexError")
    ELSE LET character == scanner_peek(rd)
         IN  IF character \in {" ", "\r", "\t"} THEN skip_whitespace(scanner_advance(rd))
             ELSE IF character = "\n"
             THEN skip_whitespace(scanner_advance([rd EXCEPT !.line = @ + 1]))
             ELSE IF character = "/"
             THEN (IF peek_next_raises(rd) THEN Raises(rd, "IndexError")
                   ELSE IF peek_next(rd) = "/"
                   THEN (LET skipped == comment_loop(rd)
                         IN  IF skipped.err # "" THEN skipped
                             ELSE skip_whitespace(skipped.reader))
                   ELSE Returns(rd, NoScan))
             ELSE Returns(rd, NoScan)

check_keyword(rd, start, length, rest, token_type) ==
    LET index_start == rd.start + start
        index_end == index_start + length
        is_correct_length == rd.current - rd.start = start + length
        is_actual_match == Slice(rd.source, index_start, index_end) = rest
    IN  IF is_correct_length /\ is_actual_match THEN token_type ELSE "TOKEN_IDENTIFIER"

identifier_type(rd) ==
    LET character == rd.source[rd.start + 1]
    IN  IF character = "l" THEN check_keyword(rd, 1, 2, <<"e", "t">>, "TOKEN_VAR")
        ELSE IF character = "p"
        THEN check_keyword(rd, 1, 4, <<"r", "i", "n", "t">>, "TOKEN_PRINT")
        ELSE IF character = "r"
        THEN check_keyword(rd, 1, 5, <<"e", "t", "u", "r", "n">>, "TOKEN_RETURN")
        ELSE IF character = "t" THEN check_keyword(rd, 1, 3, <<"r", "u", "e">>, "TOKEN_TRUE")
        ELSE IF character = "f" /\ rd.current - rd.start > 1
                  /\ rd.source[rd.start + 2] = "a"
        THEN check_keyword(rd, 2, 3, <<"l", "s", "e">>, "TOKEN_FALSE")
        ELSE IF character = "f" /\ rd.current - rd.start > 1
                  /\ rd.source[rd.start + 2] = "u"
        THEN check_keyword(rd, 2, 1, <<"n">>, "TOKEN_FUN")
        ELSE "TOKEN_IDENTIFIER"

RECURSIVE identifier(_)
identifier(rd) ==
    IF peek_raises(rd) THEN Raises(rd, "IndexError")
    ELSE IF is_alpha(scanner_peek(rd)) \/ is_digit(scanner_peek(rd))
    THEN identifier(scanner_advance(rd))
    ELSE make_token(rd, identifier_type(rd))

\* number's two loops over digits.
RECURSIVE digits_loop(_)
digits_loop(rd) ==
    IF peek_raises(rd) THEN Raises(rd, "IndexError")
    ELSE IF is_digit(scanner_peek(rd)) THEN digits_loop(scanner_advance(rd))
    ELSE Returns(rd, NoScan)

scanner_number(rd) ==
    LET whole == digits_loop(rd)
        r1 == whole.reader
        fraction == digits_loop(scanner_advance(r1))
    IN  IF whole.err # "" THEN whole
        ELSE IF scanner_peek(r1) # "." THEN make_token(r1, "TOKEN_NUMBER")
        ELSE IF peek_next_raises(r1) THEN Raises(r1, "IndexError")
        ELSE IF ~is_digit(peek_next(r1)) THEN make_token(r1, "TOKEN_NUMBER")
        ELSE IF fraction.err # "" THEN fraction
        ELSE make_token(fraction.reader, "TOKEN_NUMBER")

\* len("Unterminated string."), len("Unexpected character.")
RECURSIVE string(_)
string(rd) ==
    IF peek_raises(rd) THEN Raises(rd, "IndexError")
    ELSE IF scanner_peek(rd) # "\"" /\ ~is_at_end(rd)
    THEN string(scanner_advance(IF scanner_peek(rd) = "\n"
                                THEN [rd EXCEPT !.line = @ + 1] ELSE rd))
    ELSE IF is_at_end(rd) THEN error_token(rd, 20)
    ELSE make_token(scanner_advance(rd), "TOKEN_STRING")

scan_token(rd) ==
    LET skipped == skip_whitespace(rd)
        r1 == [skipped.reader EXCEPT !.start = skipped.reader.current]
        r2 == scanner_advance(r1)
        character == r2.source[r2.current]
        matched == scanner_match(r2, "=")
    IN  IF skipped.err # "" THEN skipped
        ELSE IF is_at_end(r1) THEN make_token(r1, "TOKEN_EOF")
        ELSE IF is_alpha(character) THEN identifier(r2)
        ELSE IF is_digit(character) THEN scanner_number(r2)
        ELSE IF character \in DOMAIN single_token_map
        THEN make_token(r2, single_token_map[character])
        ELSE IF character \in DOMAIN double_token_map
        THEN make_token(matched.reader,
                        double_token_map[character][IF matched.condition THEN 1 ELSE 2])
        ELSE IF character = "\"" THEN string(r2)
        ELSE error_token(r2, 21)

\* No resolve_local call has been made.
NotResolved == [name |-> "", arg |-> -1]

\* No line has been run on a VM of its own yet.
NotRun == [emulator |-> init_vm, frame |-> 0, result |-> "idle", instruction |-> "None"]

\* ------------------------------------------------------------ actions
Init ==
    /\ emulator = init_vm
    /\ frame = 0
    /\ result = "idle"
    /\ instruction = "None"
    /\ operand = 0
    /\ lines_run = 0
    /\ bytes_run = 0
    /\ searcher = init_scanner(<< >>)
    /\ processor = init_parser
    /\ composer = init_compiler
    /\ bytecode = init_chunk
    /\ diagnostics = << >>
    /\ windows = <<Window(0, 0)>>
    /\ cstatus = "idle"
    /\ declarations = 0
    /\ fresh = NotRun
    /\ segment = chunk_init_chunk
    /\ writes = << >>
    /\ additions = << >>
    /\ freed = "no"
    /\ reader = Scanner
    /\ returned = NoScan
    /\ scan_status = "idle"
    /\ scanned = 0
    /\ pending = FALSE
    /\ resolved = NotResolved
    /\ scopes = << >>
    /\ closed = << >>

\* read_byte can deliver a byte of width w more bytes of the running chunk.
Fetch(w) ==
    /\ result = "running"
    /\ emulator.frames[frame].fun # None
    /\ bytes_run + w <= MaxCode
    /\ bytes_run' = bytes_run + w

Step(m, op, arg) ==
    /\ emulator' = m.emulator
    /\ result' = m.result
    /\ instruction' = op
    /\ operand' = arg
    /\ UNCHANGED <<frame, lines_run, cvars, fresh, kvars, svars, lvars>>

Interpret ==
    /\ result \in InterpretResults \cup {"idle"}
    /\ lines_run < MaxLines
    /\ \E fun \in CompileResults :
          LET m == interpret(emulator, fun)
          IN  /\ emulator' = m.emulator
              /\ result' = m.result
              /\ frame' = m.frame
    /\ instruction' = "None"
    /\ operand' = 0
    /\ lines_run' = lines_run + 1
    /\ UNCHANGED <<bytes_run, cvars, fresh, kvars, svars, lvars>>

\* read_byte on a frame that holds no function.
ReadByteNoFunction ==
    /\ result = "running"
    /\ emulator.frames[frame].fun = None
    /\ emulator' = read_bytes(emulator, frame, 1)
    /\ result' = "AssertionError"
    /\ UNCHANGED <<frame, instruction, operand, lines_run, bytes_run, cvars, fresh, kvars, svars, lvars>>

OpConstant == Fetch(2) /\ \E c \in ConstantValues :
                  Step(op_constant(emulator, frame, c), "OP_CONSTANT", 0)

OpNil == Fetch(1) /\ Step(op_nil(emulator, frame), "OP_NIL", 0)

OpPop == Fetch(1) /\ Step(op_pop(emulator, frame), "OP_POP", 0)

OpGetLocal == Fetch(2) /\ \E slot \in Slots :
                  Step(op_get_local(emulator, frame, slot), "OP_GET_LOCAL", slot)

OpSetLocal == Fetch(2) /\ \E slot \in Slots :
                  Step(op_set_local(emulator, frame, slot), "OP_SET_LOCAL", slot)

OpBinary == Fetch(1) /\ \E op \in BinaryOps :
                Step(op_binary(emulator, frame, op), OpOf(op), 0)

OpNegate == Fetch(1) /\ Step(op_negate(emulator, frame), "OP_NEGATE", 0)

OpPrint == Fetch(1) /\ Step(op_print(emulator, frame), "OP_PRINT", 0)

OpCall == Fetch(2) /\ \E arg_count \in ArgCounts :
              Step(op_call(emulator, frame, arg_count), "OP_CALL", arg_count)

OpReturn == Fetch(1) /\ Step(op_return(emulator, frame), "OP_RETURN", 0)

Next ==
    \/ Interpret
    \/ ReadByteNoFunction
    \/ OpConstant
    \/ OpNil
    \/ OpPop
    \/ OpGetLocal
    \/ OpSetLocal
    \/ OpBinary
    \/ OpNegate
    \/ OpPrint
    \/ OpCall
    \/ OpReturn

Spec == Init /\ [][Next]_vars

\* ------------------------------------------------------------ compile
\* A compile per source: the source is chosen, the VM is not involved.
InitCompile ==
    /\ emulator = init_vm
    /\ frame = 0
    /\ result = "idle"
    /\ instruction = "None"
    /\ operand = 0
    /\ lines_run = 0
    /\ bytes_run = 0
    /\ \E tokens \in Programs : searcher = init_scanner(tokens)
    /\ processor = init_parser
    /\ composer = init_compiler
    /\ bytecode = init_chunk
    /\ diagnostics = << >>
    /\ windows = <<Window(0, 0)>>
    /\ cstatus = "idle"
    /\ declarations = 0
    /\ fresh = NotRun
    /\ segment = chunk_init_chunk
    /\ writes = << >>
    /\ additions = << >>
    /\ freed = "no"
    /\ reader = Scanner
    /\ returned = NoScan
    /\ scan_status = "idle"
    /\ scanned = 0
    /\ pending = FALSE
    /\ resolved = NotResolved
    /\ scopes = << >>
    /\ closed = << >>

\* The compiler's objects as they stand, while compile runs.
Compiling ==
    [searcher |-> searcher, processor |-> processor, composer |-> composer,
     bytecode |-> bytecode, diagnostics |-> diagnostics, windows |-> windows,
     status |-> "ok"]

Becomes(c) ==
    /\ searcher' = c.searcher
    /\ processor' = c.processor
    /\ composer' = c.composer
    /\ bytecode' = c.bytecode
    /\ diagnostics' = c.diagnostics
    /\ windows' = c.windows

CompileBegin ==
    /\ cstatus = "idle"
    /\ LET c == compile_begin(searcher.tokens)
       IN  /\ Becomes(c)
           /\ cstatus' = IF c.status = "ok" THEN "compiling" ELSE c.status
    /\ UNCHANGED <<declarations, vmvars, fresh, kvars, svars, lvars>>

CompileDeclaration ==
    /\ cstatus = "compiling"
    /\ LET turn == compile_loop(Compiling)
           end == compile_end(turn.c)
       IN  IF turn.done
           THEN /\ Becomes(end.c)
                /\ cstatus' = end.returns
                /\ UNCHANGED declarations
           ELSE /\ Becomes(turn.c)
                /\ cstatus' = IF turn.c.status = "ok" THEN "compiling" ELSE turn.c.status
                /\ declarations' = declarations + 1
    /\ UNCHANGED <<vmvars, fresh, kvars, svars, lvars>>

NextCompile ==
    \/ CompileBegin
    \/ CompileDeclaration

SpecCompile == InitCompile /\ [][NextCompile]_vars

\* ------------------------------------------------------------ expression order
\* The reading of an expression the language defines: * and / bind tighter than
\* + and -, unary - tighter than both, equal operators group to the left, a
\* parenthesised expression is one operand.  Each Postfix operator returns the
\* operand-then-operator order of the longest expression the tokens start with.
Parsed(out, rest, ok) == [out |-> out, rest |-> rest, ok |-> ok]

NotParsed == Parsed(<< >>, << >>, FALSE)

RECURSIVE PostfixTerm(_), PostfixTermRest(_), PostfixFactor(_), PostfixFactorRest(_),
          PostfixUnary(_), PostfixPrimary(_)

PostfixPrimary(toks) ==
    IF toks = << >> THEN NotParsed
    ELSE IF Head(toks).token_type = "TOKEN_NUMBER"
    THEN Parsed(<<Head(toks).source>>, Tail(toks), TRUE)
    ELSE IF Head(toks) = LEFT_PAREN
    THEN LET inner == PostfixTerm(Tail(toks))
         IN  IF inner.ok /\ inner.rest # << >> /\ Head(inner.rest) = RIGHT_PAREN
             THEN Parsed(inner.out, Tail(inner.rest), TRUE)
             ELSE NotParsed
    ELSE NotParsed

PostfixUnary(toks) ==
    IF toks # << >> /\ Head(toks) = MINUS
    THEN LET operand1 == PostfixUnary(Tail(toks))
         IN  IF operand1.ok THEN Parsed(operand1.out \o <<"OP_NEGATE">>, operand1.rest, TRUE)
             ELSE NotParsed
    ELSE PostfixPrimary(toks)

PostfixFactorRest(left) ==
    IF left.ok /\ left.rest # << >> /\ Head(left.rest) \in {STAR, SLASH}
    THEN LET right == PostfixUnary(Tail(left.rest))
             op == IF Head(left.rest) = STAR THEN "OP_MULTIPLY" ELSE "OP_DIVIDE"
         IN  IF right.ok
             THEN PostfixFactorRest(Parsed(left.out \o right.out \o <<op>>, right.rest, TRUE))
             ELSE NotParsed
    ELSE left

PostfixFactor(toks) == PostfixFactorRest(PostfixUnary(toks))

PostfixTermRest(left) ==
    IF left.ok /\ left.rest # << >> /\ Head(left.rest) \in {PLUS, MINUS}
    THEN LET right == PostfixFactor(Tail(left.rest))
             op == IF Head(left.rest) = PLUS THEN "OP_ADD" ELSE "OP_SUBTRACT"
         IN  IF right.ok
             THEN PostfixTermRest(Parsed(left.out \o right.out \o <<op>>, right.rest, TRUE))
             ELSE NotParsed
    ELSE left

PostfixTerm(toks) == PostfixTermRest(PostfixFactor(toks))

\* The code of a chunk with every OP_CONSTANT and its operand read as the number
\* it loads, from byte i on.
RECURSIVE Decode(_, _)
Decode(chunk, i) ==
    IF i > Len(chunk.code) THEN << >>
    ELSE IF chunk.code[i] = Op("OP_CONSTANT") /\ i < Len(chunk.code)
    THEN <<ToString(chunk.constants[chunk.code[i + 1].arg + 1].num)>> \o Decode(chunk, i + 2)
    ELSE <<chunk.code[i].op>> \o Decode(chunk, i + 1)

IsPrefix(a, b) == Len(a) <= Len(b) /\ SubSeq(b, 1, Len(a)) = a

\* The program is one expression statement: an expression, then ';'.
IsExpressionStatement(tokens) ==
    /\ PostfixTerm(tokens).ok
    /\ PostfixTerm(tokens).rest = <<SEMICOLON>>

HasParentheses(tokens) == \E i \in 1..Len(tokens) : tokens[i] = LEFT_PAREN

\* C1: once compile has worked on an expression statement, the chunk holds the
\* expression's operands and operators in postfix order, for the reading in which
\* * and / bind tighter than + and -, unary - tighter than both, equal operators
\* group to the left and a parenthesised operand is computed before the operator
\* applied to it.
C1_PostfixOrder ==
    (declarations = 1 /\ IsExpressionStatement(searcher.tokens))
        => IsPrefix(PostfixTerm(searcher.tokens).out, Decode(bytecode, 1))

\* The same without parentheses in the expression.
C1_PostfixOrderUngrouped ==
    (declarations = 1 /\ IsExpressionStatement(searcher.tokens)
                      /\ ~HasParentheses(searcher.tokens))
        => PostfixTerm(searcher.tokens).out = Decode(bytecode, 1)

\* ------------------------------------------------------------ variable reads
\* Braces open at token k.
Depth(tokens, k) ==
    Cardinality({m \in 1..k : tokens[m] = LEFT_BRACE})
        - Cardinality({m \in 1..k : tokens[m] = RIGHT_BRACE})

\* The `let` at token j declares a variable whose block is still open at token i.
Visible(tokens, j, i) ==
    /\ j < i
    /\ tokens[j] = VAR
    /\ \A k \in j..i : Depth(tokens, k) >= Depth(tokens, j)

\* Tokens i, i + 1, i + 2 are `print name ;`.
IsPrintOfName(tokens, i) ==
    /\ i + 2 <= Len(tokens)
    /\ tokens[i] = PRINT
    /\ tokens[i + 1].token_type = "TOKEN_IDENTIFIER"
    /\ tokens[i + 2] = SEMICOLON

Max(S) == CHOOSE x \in S : \A y \in S : y <= x

\* The `let`s that bind the name printed at token i, innermost last.
BindingsOf(tokens, i) ==
    {j \in 1..(i - 1) : Visible(tokens, j, i) /\ tokens[j + 1] = tokens[i + 1]}

\* Where the innermost binding's value sits in the running frame: slot 0 is the
\* callee, then one slot for each variable alive, in declaration order.
BindingSlot(tokens, i) ==
    Cardinality({j \in 1..(i - 1) : Visible(tokens, j, i)
                                    /\ j <= Max(BindingsOf(tokens, i))})

\* The chunk reads slot and prints what it read.
PrintsSlot(chunk, slot) ==
    \E k \in 1..(Len(chunk.code) - 2) :
        /\ chunk.code[k] = Op("OP_GET_LOCAL")
        /\ chunk.code[k + 1] = Operand(slot)
        /\ chunk.code[k + 2] = Op("OP_PRINT")

\* The programs of the tests in which every variable is declared before its use.
DeclaredBeforeUse ==
    {test_single_variable_single_scope, test_single_variable_multiple_scope,
     test_multiple_variable_multiple_scope}

Dispatched == bytes_run' # bytes_run

\* The frame run is driving, before the step.
Driven == emulator.frames[frame]

\* The value distance below the top of the driven frame's slots, None if none.
Operand1(distance) ==
    LET i == Driven.slots_top - 1 - distance
    IN  IF i >= 0 /\ i < Len(Driven.slots) THEN Driven.slots[i + 1] ELSE None

\* What pop hands out: slots[slots_top - 1], indexed as a Python list is.
Popped == Driven.slots[Pos(Driven.slots, Driven.slots_top - 1)]

IsArithmetic(op) == op \in {"OP_ADD", "OP_SUBTRACT", "OP_MULTIPLY", "OP_DIVIDE"}

\* The step meets one of the runtime faults of the language.
RuntimeFault ==
    \/ /\ IsArithmetic(instruction')
       /\ Operand1(0) # None /\ Operand1(1) # None
       /\ (Operand1(0).kind # "number" \/ Operand1(1).kind # "number")
    \/ /\ instruction' = "OP_NEGATE"
       /\ Operand1(0) # None /\ Operand1(0).kind # "number"
    \/ /\ instruction' = "OP_CALL"
       /\ Operand1(operand') # None
       /\ \/ Operand1(operand').kind # "Function"
          \/ Operand1(operand').arity # operand'
          \/ emulator.frame_count = FRAMES_MAX
    \/ /\ instruction' = "OP_GET_LOCAL"
       /\ operand' >= 0 /\ operand' < Len(Driven.slots)
       /\ Driven.slots[operand' + 1] = None

CallSucceeds ==
    /\ instruction' = "OP_CALL"
    /\ Operand1(operand').kind = "Function"
    /\ Operand1(operand').typed
    /\ Operand1(operand').arity = operand'
    /\ emulator.frame_count < FRAMES_MAX

ChunkWrites == {[byte |-> Number(0, 1), line |-> Number(123, 1)],
                [byte |-> Number(1, 1), line |-> Number(124, 1)]}
ChunkValues == {Number(6, 5), Number(1, 1)}

Usable == freed = "no" /\ Len(writes) + Len(additions) < MaxCalls

WriteChunk ==
    /\ Usable
    /\ \E write \in ChunkWrites :
          LET w == chunk_write_chunk(segment, write.byte, write.line)
          IN  /\ segment' = w.chunk
              /\ freed' = IF w.err = "" THEN "no" ELSE w.err
              /\ writes' = Append(writes, write)
    /\ UNCHANGED <<additions, vmvars, cvars, fresh, svars, lvars>>

AddConstant ==
    /\ Usable
    /\ \E val \in ChunkValues :
          LET a == chunk_add_constant(segment, val)
          IN  /\ segment' = a.chunk
              /\ freed' = IF a.err = "" THEN "no" ELSE a.err
              /\ additions' = Append(additions, [val |-> val, constant |-> a.constant])
    /\ UNCHANGED <<writes, vmvars, cvars, fresh, svars, lvars>>

FreeChunk ==
    /\ freed = "no"
    /\ reader = Scanner
    /\ returned = NoScan
    /\ scan_status = "idle"
    /\ scanned = 0
    /\ pending = FALSE
    /\ resolved = NotResolved
    /\ scopes = << >>
    /\ closed = << >>
    /\ LET f == free_chunk(segment)
       IN  /\ segment' = f.chunk
           /\ freed' = IF f.err = "" THEN "yes" ELSE f.err
    /\ UNCHANGED <<writes, additions, vmvars, cvars, fresh, svars, lvars>>

NextChunk ==
    \/ WriteChunk
    \/ AddConstant
    \/ FreeChunk

SpecChunk == Init /\ [][NextChunk]_vars


\* ------------------------------------------------------------ a scanner on characters
\* The characters sources are written in, and the sources.
Alphabet == Letters \cup Digits \cup {" ", "\n", "/", ".", "(", "=", "\"", "@"}

RECURSIVE SourcesOf(_)
SourcesOf(n) ==
    IF n = 0 THEN {<< >>}
    ELSE SourcesOf(n - 1)
             \cup {Append(source, character) :
                      source \in {s \in SourcesOf(n - 1) : Len(s) = n - 1},
                      character \in Alphabet}

Sources == SourcesOf(MaxSource)

InitScanner ==
    /\ scan_status = "idle"
    /\ \E source \in Sources : reader' = scanner_init_scanner(source)
    /\ scan_status' = "ok"
    /\ UNCHANGED <<returned, scanned, vmvars, cvars, fresh, kvars, lvars>>

\* One scan_token call; after an exception no further call is made.
ScanToken ==
    /\ scan_status = "ok"
    /\ scanned <= Len(reader.source) + 1
    /\ LET s == scan_token(reader)
       IN  /\ reader' = s.reader
           /\ returned' = s.token
           /\ scan_status' = IF s.err = "" THEN "ok" ELSE s.err
    /\ scanned' = scanned + 1
    /\ UNCHANGED <<vmvars, cvars, fresh, kvars, lvars>>

NextScan ==
    \/ InitScanner
    \/ ScanToken

SpecScan == Init /\ [][NextScan]_vars

\* ------------------------------------------------------------ locals, driven directly
\* The calls the compiler makes on its locals while it compiles blocks and `let`
\* declarations: begin_scope and end_scope (block), parse_variable's
\* declare_variable, define_variable, and named_variable's resolve_local.
Names == {"a", "b"}

\* Further names, declared together by DeclareLocals so that the locals array
\* can fill up: with them in scope, MaxDeclared more declarations reach its
\* capacity.
OtherNames == <<"c", "d", "e", "f", "g">>

\* Locals declared so far: those popped (one OP_POP each) and those in scope.
Declared == Len(bytecode.code) + composer.local_count - 1

\* How many of the locals declared so far DeclareLocals declared.
Given ==
    IF Len(scopes) > 0 /\ Len(scopes[1]) >= Len(OtherNames)
                       /\ SubSeq(scopes[1], 1, Len(OtherNames)) = OtherNames
    THEN Len(OtherNames) ELSE 0

\* `let` declarations of the names, one after the other.
RECURSIVE declare_all(_, _)
declare_all(c, names) ==
    IF names = << >> THEN c
    ELSE declare_all(
             define_variable(
                 declare_variable([c EXCEPT !.processor.previous = IDENTIFIER(Head(names))])),
             Tail(names))

\* compile is under way, no exception raised, and no diagnostic has put the
\* parser in panic mode.
Steady == cstatus = "idle" /\ ~processor.panic_mode

Goes(c) ==
    /\ Becomes(c)
    /\ cstatus' = IF c.status = "ok" THEN cstatus ELSE c.status

BeginScope ==
    /\ Steady /\ ~pending
    /\ composer.scope_depth < MaxDepth
    /\ Goes(begin_scope(Compiling))
    /\ scopes' = Append(scopes, << >>)
    /\ resolved' = NotResolved
    /\ UNCHANGED <<pending, closed, declarations, vmvars, fresh, kvars, svars>>

EndScope ==
    /\ Steady /\ ~pending
    /\ composer.scope_depth > 0
    /\ Goes(end_scope(Compiling))
    /\ scopes' = SubSeq(scopes, 1, Len(scopes) - 1)
    /\ closed' = scopes[Len(scopes)]
    /\ resolved' = NotResolved
    /\ UNCHANGED <<pending, declarations, vmvars, fresh, kvars, svars>>

\* A block that opens the script with the declarations of OtherNames.
DeclareLocals ==
    /\ Steady /\ ~pending
    /\ composer.scope_depth = 0 /\ Declared = 0
    /\ Goes(declare_all(begin_scope(Compiling), OtherNames))
    /\ scopes' = <<OtherNames>>
    /\ resolved' = NotResolved
    /\ UNCHANGED <<pending, closed, declarations, vmvars, fresh, kvars, svars>>

\* parse_variable: the name is consumed (it becomes processor.previous) and
\* declared.
DeclareVariable ==
    /\ Steady /\ ~pending
    /\ Declared < MaxDeclared + Given
    /\ \E name \in Names :
          LET c == [Compiling EXCEPT !.processor.previous = IDENTIFIER(name)]
              inner == Len(scopes)
              is_new == \A i \in 1..Len(scopes[inner]) : scopes[inner][i] # name
          IN  /\ Goes(declare_variable(c))
              /\ scopes' = IF inner > 0 /\ is_new /\ composer.local_count < UINT8_COUNT
                           THEN [scopes EXCEPT ![inner] = Append(@, name)]
                           ELSE scopes
    /\ pending' = TRUE
    /\ resolved' = NotResolved
    /\ UNCHANGED <<closed, declarations, vmvars, fresh, kvars, svars>>

DefineVariable ==
    /\ Steady /\ pending
    /\ Goes(define_variable(Compiling))
    /\ pending' = FALSE
    /\ resolved' = NotResolved
    /\ UNCHANGED <<scopes, closed, declarations, vmvars, fresh, kvars, svars>>

\* named_variable's lookup of a name, in an initialiser or in a statement.
ResolveLocal ==
    /\ Steady
    /\ \E name \in Names :
          LET r == resolve_local(Compiling, IDENTIFIER(name))
          IN  /\ Goes(r.c)
              /\ resolved' = [name |-> name, arg |-> r.arg]
    /\ UNCHANGED <<pending, scopes, closed, declarations, vmvars, fresh, kvars, svars>>

NextLocals ==
    \/ BeginScope
    \/ EndScope
    \/ DeclareLocals
    \/ DeclareVariable
    \/ DefineVariable
    \/ ResolveLocal

SpecLocals == Init /\ [][NextLocals]_vars

\* ------------------------------------------------------------ C12, C13, C14
\* len() of a list the chunk holds (0 stands for the TypeError on None).
len(array) == Len(array.items)

\* C12 as stated: after any write_chunk and add_constant calls,
\* count == len(code) == len(lines), and count is the number of write_chunk calls.
C12_CountIsLength ==
    freed = "no" =>
        /\ segment.count = len(segment.code)
        /\ segment.count = len(segment.lines)
        /\ segment.count = Len(writes)

\* C12 amended: count is the number of write_chunk calls, while code and lines
\* are both capacity entries long (None before the first write), count of them
\* written and the rest None; capacity is 0 or 8 doubled some number of times.
C12_CountIsWrites ==
    freed = "no" =>
        /\ segment.count = Len(writes)
        /\ len(segment.code) = segment.capacity
        /\ len(segment.lines) = segment.capacity
        /\ segment.count <= segment.capacity
        /\ segment.code.is_none <=> segment.capacity = 0
        /\ segment.lines.is_none <=> segment.capacity = 0
        /\ segment.capacity \in {0, 8, 16, 32}
        /\ \A i \in segment.count + 1..segment.capacity :
              segment.code.items[i] = None /\ segment.lines.items[i] = None

\* Nine writes and a constant: the arrays have grown twice.
C12_WrittenPastFirstCapacity ==
    /\ freed = "no"
    /\ reader = Scanner
    /\ returned = NoScan
    /\ scan_status = "idle"
    /\ scanned = 0
    /\ pending = FALSE
    /\ resolved = NotResolved
    /\ scopes = << >>
    /\ closed = << >>
    /\ Len(writes) = 9
    /\ Len(additions) = 1
    /\ segment.capacity = 16

\* C13: code[i] and lines[i] are the byte and line of the i-th write, add_constant
\* returns 0, 1, 2, ... and constants[k] is the value of the call that returned k,
\* in every state any sequence of calls reaches (so growth and later calls leave
\* earlier entries as they were).
C13_EntriesAreWhatWasWritten ==
    freed = "no" =>
        /\ \A i \in 1..Len(writes) :
              /\ segment.code.items[i] = writes[i].byte
              /\ segment.lines.items[i] = writes[i].line
        /\ \A k \in 1..Len(additions) :
              /\ additions[k].constant = k - 1
              /\ segment.constants.values.items[additions[k].constant + 1] = additions[k].val
        /\ segment.constants.count = Len(additions)

\* Nine constants, not all the same, and a write: the value array has grown twice.
C13_ConstantsPastFirstCapacity ==
    /\ freed = "no"
    /\ reader = Scanner
    /\ returned = NoScan
    /\ scan_status = "idle"
    /\ scanned = 0
    /\ pending = FALSE
    /\ resolved = NotResolved
    /\ scopes = << >>
    /\ closed = << >>
    /\ Len(additions) = 9
    /\ additions[1].val # additions[9].val
    /\ segment.constants.capacity = 16
    /\ Len(writes) = 1

\* C14: free_chunk on a chunk reached from init_chunk by any number of writes and
\* constants, none included, completes and yields an empty chunk.
C14_FreeChunkCompletes ==
    freed # "no" =>
        /\ freed = "yes"
        /\ segment.count = 0
        /\ segment.capacity = 0
        /\ segment.code.is_none
        /\ segment.constants.values.is_none

\* The same for chunks with at least one write.
C14_FreeWrittenChunkCompletes ==
    (freed # "no" /\ Len(writes) >= 1) =>
        /\ freed = "yes"
        /\ segment.count = 0
        /\ segment.capacity = 0
        /\ segment.code.is_none
        /\ segment.constants.values.is_none

\* ------------------------------------------------------------ C15, C16, C17
\* The step is a scan_token call.
Scanned == scanned' = scanned + 1

C16_ScanTokenReturns ==
    scanned >= 1 => (scan_status = "ok" /\ returned # NoScan)

\* C17: a token other than ERROR has source[start .. start + length] as its
\* lexeme, and an ERROR token has a message as its lexeme.
C17_LexemeIsSubstringOrMessage ==
    (scanned >= 1 /\ scan_status = "ok") =>
        /\ ~returned.source.is_none
        /\ returned.token_type # "TOKEN_ERROR" =>
              returned.source.items
                  = Slice(reader.source, returned.start, returned.start + returned.length)

\* The same for tokens other than ERROR only.
C17_LexemeIsSubstring ==
    (scanned >= 1 /\ scan_status = "ok" /\ returned.token_type # "TOKEN_ERROR") =>
        /\ ~returned.source.is_none
        /\ returned.source.items
               = Slice(reader.source, returned.start, returned.start + returned.length)

\* ------------------------------------------------------------ C18, C19, C20
\* The names of all open blocks in declaration order: the name at index j is the
\* local of slot j (slot 0 is the reserved one).
RECURSIVE Flat(_)
Flat(ss) == IF ss = << >> THEN << >> ELSE Flat(SubSeq(ss, 1, Len(ss) - 1)) \o ss[Len(ss)]

Occurs(name, names) == \E i \in 1..Len(names) : names[i] = name

\* The step declares a name inside a block.
Declaring == ~pending /\ pending' /\ composer.scope_depth > 0

Redeclared ==
    [at |-> processor'.previous.source,
     message |-> "Variable with this name already declared in this scope."]

TooManyLocals ==
    [at |-> processor'.previous.source, message |-> "Too many local variables in function."]

InnermostSlot(name) ==
    LET names == Flat(scopes)
        slots == {j \in 1..Len(names) : names[j] = name}
    IN  IF slots = {} THEN -1 ELSE CHOOSE j \in slots : \A k \in slots : k <= j

\* The step is a resolve_local call.
Resolving == resolved' # NotResolved /\ resolved' # resolved

\* C19: a reference resolves to the slot of the innermost declaration of its name
\* among the open blocks, so inside an inner block to the inner declaration and
\* after that block has closed to the outer one again.
C19_ResolvesInnermost ==
    [][Resolving => resolved'.arg = InnermostSlot(resolved'.name)]_vars

\* `a` was declared in a block and in a block inside it; the inner block has
\* closed and a reference to `a` has resolved to slot 1.
C19_ResolvedAfterInnerClosed ==
    /\ scopes = << <<"a">> >>
    /\ closed = <<"a">>
    /\ resolved = [name |-> "a", arg |-> 1]
    /\ composer.local_count = 2

OwnInitializer ==
    [at |-> processor.previous.source,
     message |-> "Cannot read local variable in its own initializer."]

\* C20: between declare_variable and define_variable the new local has depth -1,
\* and a read of its name in its initialiser is reported with
\* 'Cannot read local variable in its own initializer.'
C20_OwnInitializerIsError ==
    [][(Resolving /\ pending /\ composer.scope_depth > 0
            /\ resolved'.name = processor.previous.source)
          => /\ composer.locals[composer.local_count].depth = -1
             /\ diagnostics' = Append(diagnostics, OwnInitializer)]_vars

\* ------------------------------------------------------------ C21
TooManyConstants(diagnostic) == diagnostic.message = "Too many constants in one chunk."

Finished == cstatus \notin {"idle", "compiling"}

\* C21: 'Too many constants in one chunk.' is reported only for a constant whose
\* index exceeds 255, so not for a chunk of at most 256 constants, and after the
\* report compile carries on and ends in failure (it returns False).
C21_ConstantLimit ==
    \A i \in 1..Len(diagnostics) :
        TooManyConstants(diagnostics[i]) =>
            /\ Len(bytecode.constants) > 256
            /\ Finished => cstatus = "False"

\* ------------------------------------------------------------ end_scope (C22)
\* The step closes the innermost block.
Closing == Len(scopes') = Len(scopes) - 1

Pops(n) == [i \in 1..n |-> Op("OP_POP")]

\* C22: end_scope emits exactly one OP_POP per local declared in the block being
\* closed and lowers local_count by that number, leaving the locals of enclosing
\* scopes and the reserved slot 0 in place; after it scope_depth is what it was
\* before the block was opened (the number of blocks still open); and local_count
\* never drops below 1 nor exceeds the capacity of the locals array.
C22_EndScopePopsTheBlock ==
    [][/\ Closing =>
            LET n == Len(scopes[Len(scopes)])
            IN  /\ bytecode'.code = bytecode.code \o Pops(n)
                /\ composer'.local_count = composer.local_count - n
                /\ composer'.locals = composer.locals
                /\ composer'.locals[1] = Local(NoToken, 0)
                /\ composer'.scope_depth = composer.scope_depth - 1
                /\ composer'.scope_depth = Len(scopes')
                /\ cstatus' = "idle"
       /\ composer'.local_count >= 1
       /\ composer'.local_count <= UINT8_COUNT
       /\ composer'.local_count <= Len(composer'.locals)]_vars

\* An inner block with two locals has been closed inside a block with one local
\* of its own: two OP_POPs, and the outer local still declared.
C22_InnerBlockClosed ==
    /\ closed = <<"a", "b">>
    /\ scopes = << <<"b">> >>
    /\ bytecode.code = Pops(2)
    /\ composer.local_count = 2
    /\ composer.scope_depth = 1

\* The locals array is full, and a block of it has been closed before.
C22_LocalsFull ==
    /\ composer.local_count = UINT8_COUNT
    /\ Len(bytecode.code) > 0

\* ------------------------------------------------------------ panic mode (C23)
\* At most one diagnostic is reported per stretch between calls of synchronize,
\* and while the last one has its diagnostic the parser is in panic mode.
OnePerWindow ==
    /\ \A i \in 1..Len(windows) : windows[i].reported <= 1
    /\ \A i \in 1..Len(windows) : windows[i].suppressed > 0 => windows[i].reported = 1
    /\ windows[Len(windows)].reported = 1 => processor.panic_mode

C24_SynchronizeStopsAtDeclaration ==
    /\ cstatus = "compiling" /\ processor.current.token_type \in {"TOKEN_RETURN", "TOKEN_FUN", "TOKEN_VAR"} =>
           synchronize(Compiling).searcher = searcher
    /\ Len(windows) > 1 => cstatus # "TypeError"

\* ------------------------------------------------------------ get_rule (C25)
\* C25: get_rule is defined for every token kind the scanner can produce, here
\* for the kind of every token scanned so far, so that the rule lookups of
\* parse_precedence never fail: compile never ends in get_rule's KeyError.
C25_GetRuleDefined ==
    /\ \A i \in 1..searcher.scanned : ~get_rule_raises(searcher.tokens[i].token_type)
    /\ cstatus # "KeyError"

RECURSIVE OperandsFollow(_, _)
OperandsFollow(chunk, i) ==
    IF i > Len(chunk.code) THEN TRUE
    ELSE LET byte == chunk.code[i]
         IN  IF byte.op = "OP_CONSTANT"
             THEN /\ i + 1 <= Len(chunk.code)
                  /\ chunk.code[i + 1].op = ""
                  /\ chunk.code[i + 1].arg \in 0..(Len(chunk.constants) - 1)
                  /\ OperandsFollow(chunk, i + 2)
             ELSE IF byte.op \in {"OP_GET_LOCAL", "OP_SET_LOCAL"}
             THEN /\ i + 1 <= Len(chunk.code)
                  /\ chunk.code[i + 1].op = ""
                  /\ chunk.code[i + 1].arg \in 0..(UINT8_COUNT - 1)
                  /\ OperandsFollow(chunk, i + 2)
             ELSE byte.op # "" /\ OperandsFollow(chunk, i + 1)

WellFormed(chunk) ==
    /\ chunk.code # << >>
    /\ chunk.code[Len(chunk.code)] = Op("OP_RETURN")
    /\ OperandsFollow(chunk, 1)

C28_BlockIsWholeStatement ==
    cstatus = "compiling" /\ processor.current.token_type = "TOKEN_LEFT_BRACE" =>
        LET closed_block == end_scope(block(begin_scope(match(Compiling, "TOKEN_LEFT_BRACE"))))
            after == statement(Compiling)
        IN  closed_block.status = "ok" /\ ~closed_block.processor.panic_mode =>
                /\ after.status = "ok"
                /\ after.searcher = closed_block.searcher
                /\ after.bytecode = closed_block.bytecode
                /\ after.diagnostics = closed_block.diagnostics

\* ------------------------------------------------------------ the script's scope (C29)
\* C29: the script body is compiled inside an implicit scope: scope_depth >= 1
\* whenever a top-level declaration is compiled, and a top-level `let`
\* declaration fails no assertion and, when it reports no error, declares a local.
C29_ScriptBodyInScope ==
    cstatus = "compiling" =>
        /\ composer.scope_depth >= 1
        /\ processor.current.token_type = "TOKEN_VAR" =>
               LET after == declaration(Compiling)
               IN  /\ after.status # "AssertionError"
                   /\ after.status = "ok" /\ after.diagnostics = diagnostics =>
                          after.composer.local_count = composer.local_count + 1

\* ------------------------------------------------------------ termination (C30)
\* Tokens consumed by c beyond those consumed so far.
Consumed(c) == c.searcher.scanned - searcher.scanned

\* C30: compile terminates on every finite token sequence, malformed ones
\* included, for every iteration of its loops consumes a token unless it ends
\* the loop: an iteration of the top-level loop after which compile goes on has
\* consumed at least one token, and so has, wherever a declaration can start, a
\* declaration inside a block (an iteration of block's loop) and an advance (an
\* iteration of synchronize's loop), unless they raise; and no more tokens are
\* consumed than the sequence has.
C30_EveryIterationConsumes ==
    [][/\ cstatus = "compiling" /\ cstatus' = "compiling" =>
              /\ searcher'.scanned > searcher.scanned
              /\ declarations' = declarations + 1
       /\ cstatus = "compiling" =>
              LET inner == declaration(begin_scope(Compiling))
                  skipped == advance(Compiling)
              IN  /\ inner.status = "ok" => Consumed(inner) >= 1
                  /\ skipped.status = "ok" => Consumed(skipped) >= 1
       /\ searcher'.scanned <= Len(searcher'.tokens)
       /\ declarations' <= searcher'.scanned]_vars

\* A malformed declaration has been compiled after a well-formed one, and
\* synchronize has skipped to the token after its ';'.
C30_RecoveredPastSemicolon ==
    /\ searcher.tokens = <<NUMBER("1"), SEMICOLON, RIGHT_PAREN, NUMBER("1"),
                           SEMICOLON, NUMBER("2"), SEMICOLON>>
    /\ declarations = 2
    /\ Len(diagnostics) = 1
    /\ Len(windows) = 2
    /\ processor.previous = SEMICOLON
    /\ processor.current = NUMBER("2")
    /\ cstatus = "TypeError"

\* ------------------------------------------------------------ the REPL's VM and a fresh one
\* An instruction of a line's chunk: opcode, operand byte, and for OP_CONSTANT the
\* constant the operand names.
Instruction(op, arg, val) == [op |-> op, arg |-> arg, val |-> val]

Instructions ==
    {Instruction("OP_CONSTANT", 0, c) : c \in ConstantValues}
        \cup {Instruction(op, 0, None) :
                 op \in {"OP_NIL", "OP_POP", "OP_NEGATE", "OP_PRINT", "OP_RETURN"}}
        \cup {Instruction(OpOf(op), 0, None) : op \in BinaryOps}
        \cup {Instruction(op, slot, None) :
                 op \in {"OP_GET_LOCAL", "OP_SET_LOCAL"}, slot \in Slots}
        \cup {Instruction("OP_CALL", arg_count, None) : arg_count \in ArgCounts}

\* Bytes of code the instruction takes.
Width(i) ==
    IF i.op \in {"OP_CONSTANT", "OP_GET_LOCAL", "OP_SET_LOCAL", "OP_CALL"} THEN 2 ELSE 1

\* run's if/elif chain on the instruction read.
dispatch(em, f, i) ==
    CASE i.op = "OP_CONSTANT" -> op_constant(em, f, i.val)
      [] i.op = "OP_NIL" -> op_nil(em, f)
      [] i.op = "OP_POP" -> op_pop(em, f)
      [] i.op = "OP_GET_LOCAL" -> op_get_local(em, f, i.arg)
      [] i.op = "OP_SET_LOCAL" -> op_set_local(em, f, i.arg)
      [] i.op = "OP_ADD" -> op_binary(em, f, "+")
      [] i.op = "OP_SUBTRACT" -> op_binary(em, f, "-")
      [] i.op = "OP_MULTIPLY" -> op_binary(em, f, "*")
      [] i.op = "OP_DIVIDE" -> op_binary(em, f, "/")
      [] i.op = "OP_NEGATE" -> op_negate(em, f)
      [] i.op = "OP_PRINT" -> op_print(em, f)
      [] i.op = "OP_CALL" -> op_call(em, f, i.arg)
      [] OTHER -> op_return(em, f)

\* A VM and the run on it: one turn of run's loop on instruction i, if run has
\* not ended.
run_step(vm, i) ==
    IF vm.result # "running" THEN vm
    ELSE IF vm.emulator.frames[vm.frame].fun = None
    THEN [vm EXCEPT !.emulator = read_bytes(vm.emulator, vm.frame, 1),
                    !.result = "AssertionError"]
    ELSE LET m == dispatch(vm.emulator, vm.frame, i)
         IN  [vm EXCEPT !.emulator = m.emulator, !.result = m.result,
                        !.instruction = i.op]

\* interpret on a VM, as a VM-and-run record.
interpret_on(em, fun) ==
    LET m == interpret(em, fun)
    IN  [emulator |-> m.emulator, frame |-> m.frame, result |-> m.result,
         instruction |-> "None"]

\* The REPL's VM and its run.
Used == [emulator |-> emulator, frame |-> frame, result |-> result,
         instruction |-> instruction]

\* The REPL reads a line: interpret on its VM, and on a VM from init_vm.
ReplInterpret ==
    /\ result \in InterpretResults \cup {"idle"}
    /\ fresh.result # "running"
    /\ lines_run < MaxLines
    /\ \E fun \in CompileResults :
          LET m == interpret_on(emulator, fun)
          IN  /\ emulator' = m.emulator
              /\ result' = m.result
              /\ frame' = m.frame
              /\ fresh' = interpret_on(init_vm, fun)
    /\ instruction' = "None"
    /\ operand' = 0
    /\ lines_run' = lines_run + 1
    /\ UNCHANGED <<bytes_run, cvars, kvars, svars, lvars>>

\* Both runs, where still going, take the line's next instruction.
ReplStep ==
    /\ result = "running" \/ fresh.result = "running"
    /\ \E i \in Instructions :
          LET m == run_step(Used, i)
          IN  /\ bytes_run + Width(i) <= MaxCode
              /\ bytes_run' = bytes_run + Width(i)
              /\ emulator' = m.emulator
              /\ result' = m.result
              /\ instruction' = m.instruction
              /\ operand' = i.arg
              /\ fresh' = run_step(fresh, i)
    /\ UNCHANGED <<frame, lines_run, cvars, kvars, svars, lvars>>

NextRepl ==
    \/ ReplInterpret
    \/ ReplStep

SpecRepl == Init /\ [][NextRepl]_vars

\* The run on the VM has ended and interpret has handed back run's triple.
Returned(vm) == vm.result \in {"INTERPRET_OK", "INTERPRET_RUNTIME_ERROR"}

====
